---------------------------- MODULE Spec2Model ----------------------------
(***************************************************************************)
(* Model of the lift controller of pysensorproxy (sensorproxy/lift.py),    *)
(* of the WiFiManager it brackets (sensorproxy/wifi.py) and of the two     *)
(* callers that open lift sessions (SensorProxy._reset_lift and            *)
(* SensorProxy._run_metering in sensorproxy/app.py).                       *)
(*                                                                         *)
(* Every thread is a stack of frames, one frame per Python call in         *)
(* progress; the field pc of a frame is the statement the call resumes at. *)
(* Time is counted in units: one pass of the _move loop lasts TickUnits.   *)
(* Inputs of a step (levels of the GPIO pins, the datagrams that are       *)
(* pending on the socket, whether sendto or a subprocess fails) are drawn  *)
(* with \E in the step that reads them.                                    *)
(***************************************************************************)
EXTENDS Integers, Sequences, FiniteSets, TLC

(***************************************************************************)
(* Bounds of the model.                                                    *)
(***************************************************************************)
\* number of concurrently scheduled metering threads
NJobs == 2
\* datagrams that can be pending on the socket when _recv_responses drains it
MaxBatch == 1
\* moving_time_s default of _move (300 s), scaled to model time units
DefaultMovingUnits == 3

(***************************************************************************)
(* Configuration of the Lift object (constructor arguments), scaled to     *)
(* model units: one pass of the loop of _move lasts TickUnits units, and   *)
(* the lift is MaxHeight units high.                                       *)
(***************************************************************************)
MaxHeight == 2
TickUnits == MaxHeight
TimeoutUnits == 1
MarginUnits == 2
OneSecond == 2
HalfSecond == 1
DockingRetries == 1
HasMgr == TRUE
HasChargingPin == TRUE
\* metering["heights"] of the metering that job t runs in AppSpec: one
\* height above 0
Heights(t) == << ((t - 1) % MaxHeight) + 1 >>
\* most heights that a metering lists
MaxMoves == 3
\* heights that a metering can list: from below 0 to above the maximum
Targets == (0 - 1) .. (MaxHeight + 1)

\* threads are numbered from 1: 0 is nobody in owner and None in sock
Jobs == 1..NJobs
MainThread == NJobs + 1
Threads == {MainThread} \cup Jobs

(***************************************************************************)
(* Optional values: <<>> is None, <<v>> is the value v.                    *)
(***************************************************************************)
None == <<>>
Some(v) == <<v>>
IsNone(o) == o = <<>>
Val(o) == o[1]

(***************************************************************************)
(* Response datagrams, as the token lists that str.split() yields.         *)
(***************************************************************************)
IntStrings == {"0", "255", "-255"}

ParseInt(s) == CASE s = "0" -> 0 [] s = "255" -> 255 [] s = "-255" -> 0 - 255

Datagrams ==
    { <<"set", "0">>, <<"set", "255">>, <<"nak", "0">>,
      <<"set">>, <<"set", "x">> }

RECURSIVE SeqsUpTo(_, _)
SeqsUpTo(S, n) ==
    IF n = 0 THEN { <<>> }
    ELSE LET shorter == SeqsUpTo(S, n - 1)
         IN  shorter \cup { Append(q, d) : q \in shorter, d \in S }

Batches == SeqsUpTo(Datagrams, MaxBatch)

\* the datagrams that can have arrived behind the pending ones q
Arrivals(q) == { b \in Batches : b = <<>> \/ Len(q) + Len(b) <= MaxBatch }

VARIABLES
    stack,          \* stack[t]: the frames of thread t, innermost last
    ret,            \* ret[t]: value returned by the call that thread t just completed
    lock,           \* Lift._lock is locked
    owner,          \* thread that acquired Lift._lock (0: nobody)
    sock,           \* Lift._sock: 0 is None, else the thread that opened it
    rxq,            \* datagrams left pending on the socket
    currentSpeed,   \* Lift._current_speed
    lastRespAge,    \* time since Lift._last_response_ts, None if unset
    curHeight,      \* Lift._current_height_m
    timeUp,         \* Lift._time_up_s
    timeDown,       \* Lift._time_down_s
    mgrLock,        \* WiFiManager._lock is locked
    wpa,            \* WiFiManager.wpa_supplicant is not None
    hallTop,        \* the last step read the top hall pin and found it active
    hallBottom,     \* the last step read the bottom hall pin and found it active
    charging,       \* the last step read the charging pin and found it active
    tx,             \* speed datagram transmitted by the last step, if any
    log,            \* what the last step logged, or the exception it raised
    rx,             \* number of datagrams the last step read from the socket
    sim             \* the simulated actuator: carriage, motor and speeds

liftVars == <<lock, owner, sock, rxq, currentSpeed, lastRespAge,
              curHeight, timeUp, timeDown>>
wifiVars == <<mgrLock, wpa>>
ioVars == <<hallTop, hallBottom, charging, tx, log, rx>>
vars == <<stack, ret, lock, owner, sock, rxq, currentSpeed, lastRespAge,
          curHeight, timeUp, timeDown, mgrLock, wpa,
          hallTop, hallBottom, charging, tx, log, rx, sim>>

(***************************************************************************)
(* Frames.                                                                 *)
(***************************************************************************)
Frame(pc) == [pc |-> pc, speed |-> 0, dur |-> 0, el |-> 0, h |-> 0, n |-> 0]
MoveFrame(speed, dur) == [Frame("m_loop") EXCEPT !.speed = speed, !.dur = dur]
MoveToFrame(h) == [Frame("t_start") EXCEPT !.h = h]

Depth(t) == Len(stack[t])
Top(t) == stack[t][Len(stack[t])]
At(t, pc) == Len(stack[t]) > 0 /\ Top(t).pc = pc
Bottom(t) == stack[t][1]
Caller(t) == SubSeq(stack[t], 1, Len(stack[t]) - 1)

\* replace the innermost frame
SetTop(t, f) == [stack EXCEPT ![t] = Append(Caller(t), f)]
\* the innermost frame continues at pc
Goto(t, pc) == SetTop(t, [Top(t) EXCEPT !.pc = pc])
\* the innermost frame calls callee and resumes at pc
CallFrom(t, f, callee) == [stack EXCEPT ![t] = Append(Append(Caller(t), f), callee)]
Call(t, pc, callee) == CallFrom(t, [Top(t) EXCEPT !.pc = pc], callee)
\* the innermost frame returns
Return(t) == [stack EXCEPT ![t] = Caller(t)]


(***************************************************************************)
(* What a step reads from the pins, transmits and logs.                    *)
(***************************************************************************)
Quiet == [top |-> FALSE, bottom |-> FALSE, chg |-> FALSE, tx |-> None, log |-> "none",
          rx |-> 0]
Logs(l) == [Quiet EXCEPT !.log = l]

IO(r) ==
    /\ hallTop' = r.top
    /\ hallBottom' = r.bottom
    /\ charging' = r.chg
    /\ tx' = r.tx
    /\ log' = r.log
    /\ rx' = r.rx

\* thread t completes a call with value v; any other step of t clears ret[t]
Ret(t, v) == ret' = [ret EXCEPT ![t] = v]

(***************************************************************************)
(* Exceptions.  _move handles LiftConnectionException and _MovingException *)
(* itself and Lift.connect handles WiFiConnectionError; every other        *)
(* exception unwinds to the try statement of the caller's bracket.         *)
(***************************************************************************)
\* continuation labels of _run_metering that lie inside its try block
TryPcs == {"r_heights", "r_disc", "r_end"}

Handler(pc, e) ==
    CASE pc \in TryPcs /\ e = "WiFiConnectionError" -> "h_wifi"
      [] pc \in TryPcs /\ e = "LiftConnectionException" -> "h_lift"
      [] pc = "z_connected" /\ e = "WiFiConnectionError" -> "z_done"
      [] pc = "z_connected" /\ e = "LiftConnectionException" -> "z_h_lift"
      [] pc \in {"z_connected", "z_calibrated", "z_done"} -> "dead"
      [] OTHER -> "crashed"

\* the frame of the bracket continues in its handler; a thread that the
\* exception ends has no frame with local variables left
Unwind(t, e) ==
    LET pc == Handler(Bottom(t).pc, e)
    IN  [stack EXCEPT ![t] = IF pc \in {"crashed", "dead"}
                             THEN << Frame(pc) >>
                             ELSE << [Bottom(t) EXCEPT !.pc = pc] >>]

\* thread t raises e, which is logged when nothing handles it
Raise(t, e) ==
    /\ stack' = Unwind(t, e)
    /\ ret' = [ret EXCEPT ![t] = 0]

(***************************************************************************)
(* Lift._recv_responses: drain the pending datagrams, oldest first.        *)
(***************************************************************************)
\* a drain that keeps the first acknowledged speed it reads
RECURSIVE DrainKeepsFirst(_, _, _)
DrainKeepsFirst(q, cs, got) ==
    IF q = <<>>
    THEN [cs |-> cs, got |-> got, rest |-> <<>>, err |-> "none"]
    ELSE LET d == Head(q)
         IN  IF Len(d) # 2
             THEN [cs |-> cs, got |-> TRUE, rest |-> Tail(q), err |-> "ValueError"]
             ELSE IF d[1] = "set"
                  THEN IF d[2] \in IntStrings
                       THEN DrainKeepsFirst(Tail(q),
                                IF got THEN cs ELSE Some(ParseInt(d[2])), TRUE)
                       ELSE [cs |-> cs, got |-> TRUE, rest |-> Tail(q),
                             err |-> "ValueError"]
                  ELSE [cs |-> cs, got |-> TRUE, rest |-> Tail(q),
                        err |-> "LiftConnectionException"]

RECURSIVE Drain(_, _, _)
Drain(q, cs, got) ==
    IF q = <<>>
    THEN [cs |-> cs, got |-> got, rest |-> <<>>, err |-> "none"]
    ELSE LET d == Head(q)
         IN  IF Len(d) # 2
             THEN [cs |-> cs, got |-> TRUE, rest |-> Tail(q), err |-> "ValueError"]
             ELSE IF d[1] = "set"
                  THEN IF d[2] \in IntStrings
                       THEN Drain(Tail(q), Some(ParseInt(d[2])), TRUE)
                       ELSE [cs |-> cs, got |-> TRUE, rest |-> Tail(q),
                             err |-> "ValueError"]
                  ELSE [cs |-> cs, got |-> TRUE, rest |-> Tail(q),
                        err |-> "LiftConnectionException"]

RecvResponses(batch) ==
    IF sock = 0
    THEN [cs |-> currentSpeed, got |-> FALSE, rest |-> rxq,
          err |-> "LiftConnectionException"]
    ELSE Drain(rxq \o batch, currentSpeed, FALSE)

\* the number of datagrams that the drain with result r has read
Received(batch, r) == Len(rxq \o batch) - Len(r.rest)

(***************************************************************************)
(* WiFiManager.connect and WiFiManager.disconnect.                         *)
(***************************************************************************)
WifiAcquire(t) ==
    /\ At(t, "w_acquire")
    /\ ~mgrLock
    /\ mgrLock' = TRUE
    /\ stack' = Goto(t, "w_join")
    /\ Ret(t, 0)
    /\ IO(Quiet)
    /\ UNCHANGED <<liftVars, wpa>>

\* WiFiManager.connect after the acquire, called from Lift.connect.
\* outcome: "ok", "dhclient_failed" (wifi.py:148), "command_failed"
\* (_stop_ap, _generate_config or Popen raises before the try statement) or
\* "release_failed" (the disconnect of wifi.py:135 raises at wifi.py:162).
WifiJoin(t) ==
    /\ At(t, "w_join")
    /\ \E outcome \in {"ok", "dhclient_failed", "command_failed"}
                      \cup (IF wpa THEN {"release_failed"} ELSE {}) :
         LET \* wifi.py:134 a registered supplicant is disconnected first,
             \* which releases the manager's lock
             held == IF wpa THEN FALSE ELSE mgrLock
         IN  CASE outcome = "ok" ->
                    /\ wpa' = TRUE
                    /\ mgrLock' = held
                    /\ stack' = Return(t)
                    /\ Ret(t, 0)
                    /\ IO(Quiet)
                    /\ UNCHANGED <<lock, owner>>
               [] outcome = "command_failed" ->
                    /\ wpa' = FALSE
                    /\ mgrLock' = held
                    /\ Raise(t, "Exception")
                    /\ IO(Logs("Exception"))
                    /\ UNCHANGED <<lock, owner>>
               [] outcome = "release_failed" ->
                    /\ Raise(t, "Exception")
                    /\ IO(Logs("Exception"))
                    /\ UNCHANGED <<lock, owner, wifiVars>>
               [] outcome = "dhclient_failed" ->
                    /\ wpa' = FALSE
                    /\ mgrLock' = FALSE
                    /\ IF ~held \/ ~lock
                       THEN \* release of an unlocked lock (wifi.py:153, lift.py:121)
                            /\ Raise(t, "RuntimeError")
                            /\ IO(Logs("RuntimeError"))
                            /\ UNCHANGED <<lock, owner>>
                       ELSE \* lift.py:120 the handler of Lift.connect
                            /\ lock' = FALSE
                            /\ owner' = 0
                            /\ Raise(t, "WiFiConnectionError")
                            /\ IO(Logs("WiFiConnectionError"))
    /\ UNCHANGED <<sock, rxq, currentSpeed, lastRespAge, curHeight, timeUp, timeDown>>

(***************************************************************************)
(* Lift._check_limits.                                                     *)
(***************************************************************************)
\* _check_limits without the test of the top sensor
CheckLimitsNoTop(speed, top, bottom) ==
    IF speed < 0 /\ bottom THEN "bottom" ELSE "none"

\* _check_limits that assigns the estimate of the opposite end
CheckLimitsSwapped(speed, top, bottom) ==
    IF speed > 0 /\ top THEN "bottom"
    ELSE IF speed < 0 /\ bottom THEN "top"
    ELSE "none"

\* Lift._check_limits, given the levels read from the pins:
\* the limit the speed runs into, "none" if the lift may move
CheckLimits(speed, top, bottom) ==
    IF speed > 0 /\ top THEN "top"
    ELSE IF speed < 0 /\ bottom THEN "bottom"
    ELSE "none"

(***************************************************************************)
(* Lift.connect.                                                           *)
(***************************************************************************)
ConnectAcquire(t) ==
    /\ At(t, "c_acquire")
    /\ ~lock
    /\ lock' = TRUE
    /\ owner' = t
    /\ stack' = IF HasMgr THEN Call(t, "c_open", Frame("w_acquire"))
                          ELSE Goto(t, "c_open")
    /\ Ret(t, 0)
    /\ IO(Quiet)
    /\ UNCHANGED <<sock, rxq, currentSpeed, lastRespAge,
                   curHeight, timeUp, timeDown, wifiVars>>

\* lift.py:126-129 open the socket and send the initial speed 0; the
\* _check_limits of lift.py:224 reads no pin for the speed 0
ConnectOpen(t) ==
    /\ At(t, "c_open")
    /\ sock' = t
    /\ rxq' = <<>>
    /\ \E sendOk \in BOOLEAN :
         IF CheckLimits(0, FALSE, FALSE) # "none"
         THEN /\ Raise(t, "_MovingException")
              /\ IO(Logs("_MovingException"))
         ELSE IF sendOk
         THEN /\ stack' = Goto(t, "c_poll")
              /\ Ret(t, 0)
              /\ IO([Quiet EXCEPT !.tx = Some(0)])
         ELSE /\ Raise(t, "LiftConnectionException")
              /\ IO(Logs("LiftConnectionException"))
    /\ UNCHANGED <<lock, owner, currentSpeed, lastRespAge,
                   curHeight, timeUp, timeDown, wifiVars>>

\* lift.py:132-139 one pass of the handshake loop
ConnectPoll(t) ==
    /\ At(t, "c_poll")
    /\ IF ~IsNone(currentSpeed)
       THEN /\ stack' = Return(t)
            /\ Ret(t, 0)
            /\ IO(Logs("established"))
            /\ UNCHANGED <<rxq, currentSpeed, lastRespAge>>
       ELSE \E expired \in BOOLEAN :
              IF expired
              THEN /\ stack' = Call(t, "c_raise", Frame("d_close"))
                   /\ Ret(t, 0)
                   /\ IO(Quiet)
                   /\ UNCHANGED <<rxq, currentSpeed, lastRespAge>>
              ELSE \E batch \in Arrivals(rxq) :
                     LET r == RecvResponses(batch)
                     IN  /\ currentSpeed' = r.cs
                         /\ rxq' = r.rest
                         /\ lastRespAge' = IF r.got THEN Some(0) ELSE lastRespAge
                         /\ IF r.err = "none"
                            THEN /\ UNCHANGED stack
                                 /\ Ret(t, 0)
                                 /\ IO([Quiet EXCEPT !.rx = Received(batch, r)])
                            ELSE /\ Raise(t, r.err)
                                 /\ IO([Logs(r.err) EXCEPT !.rx = Received(batch, r)])
    /\ UNCHANGED <<lock, owner, sock, curHeight, timeUp, timeDown, wifiVars>>

\* lift.py:135 raised after the disconnect of line 134 has returned
ConnectRaise(t) ==
    /\ At(t, "c_raise")
    /\ Raise(t, "LiftConnectionException")
    /\ IO(Logs("LiftConnectionException"))
    /\ UNCHANGED <<liftVars, wifiVars>>

(***************************************************************************)
(* Lift.disconnect.                                                        *)
(***************************************************************************)
\* a disconnect that leaves the socket open
DisconnectCloseKeepsOpen(t) ==
    /\ At(t, "d_close")
    /\ IF sock = 0
       THEN /\ Raise(t, "AttributeError")
            /\ IO(Logs("AttributeError"))
       ELSE /\ stack' = Goto(t, IF HasMgr THEN "d_mgr" ELSE "d_release")
            /\ Ret(t, 0)
            /\ IO(Quiet)
    /\ UNCHANGED <<liftVars, wifiVars>>

\* lift.py:146-147
DisconnectClose(t) ==
    /\ At(t, "d_close")
    /\ IF sock = 0
       THEN /\ Raise(t, "AttributeError")
            /\ IO(Logs("AttributeError"))
            /\ UNCHANGED <<sock, rxq>>
       ELSE /\ sock' = 0
            /\ rxq' = <<>>
            /\ stack' = Goto(t, IF HasMgr THEN "d_mgr" ELSE "d_release")
            /\ Ret(t, 0)
            /\ IO(Quiet)
    /\ UNCHANGED <<lock, owner, currentSpeed, lastRespAge,
                   curHeight, timeUp, timeDown, wifiVars>>

\* lift.py:150 with the whole of WiFiManager.disconnect.
\* cmd: "ok", "release_failed" (run raises at wifi.py:162) or "down_failed"
\* (run raises at wifi.py:169 or in _start_ap, wifi.py:173)
DisconnectMgr(t) ==
    /\ At(t, "d_mgr")
    /\ \E cmd \in {"ok", "release_failed", "down_failed"} :
         IF cmd = "release_failed"
         THEN /\ Raise(t, "ReturncodeException")
              /\ IO(Logs("ReturncodeException"))
              /\ UNCHANGED wifiVars
         ELSE IF ~wpa
              THEN \* wifi.py:165 no supplicant is registered
                   /\ Raise(t, "AttributeError")
                   /\ IO(Logs("AttributeError"))
                   /\ UNCHANGED wifiVars
              ELSE /\ wpa' = FALSE
                   /\ IF cmd = "down_failed"
                      THEN /\ Raise(t, "ReturncodeException")
                           /\ IO(Logs("ReturncodeException"))
                           /\ UNCHANGED mgrLock
                      ELSE IF ~mgrLock
                      THEN \* wifi.py:174 release of an unlocked lock
                           /\ Raise(t, "RuntimeError")
                           /\ IO(Logs("RuntimeError"))
                           /\ UNCHANGED mgrLock
                      ELSE /\ mgrLock' = FALSE
                           /\ stack' = Goto(t, "d_release")
                           /\ Ret(t, 0)
                           /\ IO(Quiet)
    /\ UNCHANGED liftVars

\* a disconnect that forgets the position estimate
DisconnectReleaseForgets(t) ==
    /\ At(t, "d_release")
    /\ IF ~lock
       THEN /\ Raise(t, "RuntimeError")
            /\ IO(Logs("RuntimeError"))
            /\ UNCHANGED <<lock, owner, curHeight>>
       ELSE /\ lock' = FALSE
            /\ owner' = 0
            /\ curHeight' = None
            /\ stack' = Return(t)
            /\ Ret(t, 0)
            /\ IO(Quiet)
    /\ UNCHANGED <<sock, rxq, currentSpeed, lastRespAge,
                   timeUp, timeDown, wifiVars>>

\* lift.py:153
DisconnectRelease(t) ==
    /\ At(t, "d_release")
    /\ IF ~lock
       THEN /\ Raise(t, "RuntimeError")
            /\ IO(Logs("RuntimeError"))
            /\ UNCHANGED <<lock, owner>>
       ELSE /\ lock' = FALSE
            /\ owner' = 0
            /\ stack' = Return(t)
            /\ Ret(t, 0)
            /\ IO(Quiet)
    /\ UNCHANGED <<sock, rxq, currentSpeed, lastRespAge,
                   curHeight, timeUp, timeDown, wifiVars>>

(***************************************************************************)
(* Lift._move.                                                             *)
(***************************************************************************)
AgeCap == TimeoutUnits + TickUnits

Min(a, b) == IF a < b THEN a ELSE b

\* the receipt timestamp gets older by d
Older(age, d) == IF IsNone(age) THEN None ELSE Some(Min(Val(age) + d, AgeCap))

\* Lift._check_timeout raises
CheckTimeout(age) == ~IsNone(age) /\ Val(age) > TimeoutUnits

\* an episode whose deadline never passes
DeadlineNever(f) == FALSE

\* lift.py:280 the deadline of the episode has passed: the clock has moved on
\* since ride_start_ts was taken, so el units later is later than a deadline
\* of el units
DeadlinePassed(f) == f.el >= f.dur

\* lift.py:300-302 the loop sleeps until the next tick
Sleep(t, age) ==
    /\ stack' = SetTop(t, [Top(t) EXCEPT !.el = @ + TickUnits])
    /\ lastRespAge' = Older(age, TickUnits)

\* a _move that returns without the stop episode of lift.py:307-308
LeaveLoopNoStop(t) == stack' = Goto(t, "m_ret")

\* lift.py:304-308 the loop is left: the stop episode follows a nonzero speed
LeaveLoop(t) ==
    stack' = IF Top(t).speed # 0
             THEN Call(t, "m_ret", MoveFrame(0, OneSecond))
             ELSE Goto(t, "m_ret")

\* a loop of _move without the except clause of lift.py:293
HandledNothing(err) == FALSE

\* lift.py:293 the exception that the except clause of the loop catches
Handled(err) == err = "LiftConnectionException"

\* a loop of _move without the except clause of lift.py:296
BreaksNothing(err) == FALSE

\* lift.py:296 the exception that ends the loop with a break
Breaks(err) == err = "_MovingException"

\* lift.py:288-302 the pass ends with err: a handled exception is logged and
\* the loop sleeps until the next tick, any other exception leaves _move
EndOfPass(t, err, age, io) ==
    IF err = "none" \/ Handled(err)
    THEN /\ Sleep(t, age)
         /\ Ret(t, 0)
         /\ IO([io EXCEPT !.log = IF err = "none" THEN "none" ELSE "lce"])
    ELSE /\ Raise(t, err)
         /\ lastRespAge' = age
         /\ IO([io EXCEPT !.log = err])

\* lift.py:277-302 one pass of the loop of _move
MoveTick(t) ==
    /\ At(t, "m_loop")
    /\ LET f == Top(t)
       IN  IF DeadlinePassed(f)
           THEN /\ LeaveLoop(t)
                /\ Ret(t, 0)
                /\ IO(Logs("deadline"))
                /\ UNCHANGED <<rxq, currentSpeed, lastRespAge, curHeight>>
           ELSE IF sock = 0
           THEN \* lift.py:221 not connected
                /\ EndOfPass(t, "LiftConnectionException", lastRespAge, Quiet)
                /\ UNCHANGED <<rxq, currentSpeed, curHeight>>
           ELSE \E top \in (IF f.speed > 0 THEN BOOLEAN ELSE {FALSE}),
                   bottom \in (IF f.speed < 0 THEN BOOLEAN ELSE {FALSE}),
                   sendOk \in BOOLEAN :
                  LET limit == CheckLimits(f.speed, top, bottom)
                      pins == [Quiet EXCEPT !.top = top, !.bottom = bottom]
                  IN  IF limit # "none"
                      THEN \* lift.py:188/192 and the break of lift.py:298
                           /\ curHeight' = IF limit = "top" THEN Some(MaxHeight)
                                                            ELSE Some(0)
                           /\ IF Breaks("_MovingException")
                              THEN /\ LeaveLoop(t)
                                   /\ Ret(t, 0)
                                   /\ IO([pins EXCEPT !.log = "limit"])
                              ELSE /\ Raise(t, "_MovingException")
                                   /\ IO([pins EXCEPT !.log = "_MovingException"])
                           /\ UNCHANGED <<rxq, currentSpeed, lastRespAge>>
                      ELSE IF ~sendOk
                      THEN \* lift.py:229 sendto fails
                           /\ EndOfPass(t, "LiftConnectionException", lastRespAge, pins)
                           /\ UNCHANGED <<rxq, currentSpeed, curHeight>>
                      ELSE \E batch \in Arrivals(rxq) :
                             LET r == RecvResponses(batch)
                                 age == IF r.got THEN Some(0) ELSE lastRespAge
                                 \* lift.py:291 runs when the drain has not raised
                                 err == IF r.err = "none" /\ CheckTimeout(age)
                                        THEN "LiftConnectionException" ELSE r.err
                             IN  /\ currentSpeed' = r.cs
                                 /\ rxq' = r.rest
                                 /\ UNCHANGED curHeight
                                 /\ EndOfPass(t, err, age,
                                              [pins EXCEPT !.tx = Some(f.speed),
                                                           !.rx = Received(batch, r)])
    /\ UNCHANGED <<lock, owner, sock, timeUp, timeDown, wifiVars>>

\* lift.py:310-311
MoveReturn(t) ==
    /\ At(t, "m_ret")
    /\ lastRespAge' = None
    /\ Ret(t, Top(t).el)
    /\ stack' = Return(t)
    /\ IO(Quiet)
    /\ UNCHANGED <<lock, owner, sock, rxq, currentSpeed,
                   curHeight, timeUp, timeDown, wifiVars>>

(***************************************************************************)
(* Lift.dock.                                                              *)
(***************************************************************************)
\* lift.py:374-386 the head of the loop, up to the upward bump
DockCheck(t) ==
    /\ At(t, "dk_check")
    /\ IF ~HasChargingPin \/ Top(t).n >= DockingRetries
       THEN /\ stack' = Return(t)
            /\ IO(Quiet)
            /\ UNCHANGED lastRespAge
       ELSE \E level \in BOOLEAN :
              /\ lastRespAge' = Older(lastRespAge, AgeCap)
              /\ IF level
                 THEN /\ stack' = Return(t)
                      /\ IO([Quiet EXCEPT !.chg = TRUE, !.log = "charging"])
                 ELSE /\ stack' = Call(t, "dk_down", MoveFrame(255, HalfSecond))
                      /\ IO(Logs("retry"))
    /\ Ret(t, 0)
    /\ UNCHANGED <<lock, owner, sock, rxq, currentSpeed,
                   curHeight, timeUp, timeDown, wifiVars>>

\* lift.py:387
DockDown(t) ==
    /\ At(t, "dk_down")
    /\ stack' = CallFrom(t, [Top(t) EXCEPT !.pc = "dk_check", !.n = @ + 1],
                         MoveFrame(0 - 255, OneSecond))
    /\ Ret(t, 0)
    /\ IO(Quiet)
    /\ UNCHANGED <<liftVars, wifiVars>>

(***************************************************************************)
(* Lift.calibrate.                                                         *)
(***************************************************************************)
\* a calibrate without the loop of lift.py:395-396: it descends at once
CalibrateStartNoBump(t) ==
    /\ At(t, "k_bump")
    /\ \E bottom \in BOOLEAN :
         /\ IO([Quiet EXCEPT !.bottom = bottom])
         /\ stack' = Call(t, "k_up", MoveFrame(0 - 255, DefaultMovingUnits))
    /\ Ret(t, 0)
    /\ UNCHANGED <<liftVars, wifiVars>>

\* a calibrate without the descent of lift.py:397 before the timed ascent
CalibrateStartNoDescent(t) ==
    /\ At(t, "k_bump")
    /\ \E bottom \in BOOLEAN :
         /\ IO([Quiet EXCEPT !.bottom = bottom])
         /\ stack' = IF bottom
                     THEN Call(t, "k_bump", MoveFrame(255, OneSecond))
                     ELSE Call(t, "k_up_ret", MoveFrame(255, DefaultMovingUnits))
    /\ Ret(t, 0)
    /\ UNCHANGED <<liftVars, wifiVars>>

\* lift.py:395-397 bump upwards while the bottom sensor is active, then descend
CalibrateStart(t) ==
    /\ At(t, "k_bump")
    /\ \E bottom \in BOOLEAN :
         /\ IO([Quiet EXCEPT !.bottom = bottom])
         /\ stack' = IF bottom
                     THEN Call(t, "k_bump", MoveFrame(255, OneSecond))
                     ELSE Call(t, "k_up", MoveFrame(0 - 255, DefaultMovingUnits))
    /\ Ret(t, 0)
    /\ UNCHANGED <<liftVars, wifiVars>>

\* lift.py:400 the call
CalibrateUp(t) ==
    /\ At(t, "k_up")
    /\ stack' = Call(t, "k_up_ret", MoveFrame(255, DefaultMovingUnits))
    /\ Ret(t, 0)
    /\ IO(Quiet)
    /\ UNCHANGED <<liftVars, wifiVars>>

\* lift.py:400 the assignment, and the call of lift.py:402
CalibrateDown(t) ==
    /\ At(t, "k_up_ret")
    /\ timeUp' = Some(ret[t])
    /\ stack' = Call(t, "k_down_ret", MoveFrame(0 - 255, DefaultMovingUnits))
    /\ Ret(t, 0)
    /\ IO(Quiet)
    /\ UNCHANGED <<lock, owner, sock, rxq, currentSpeed, lastRespAge,
                   curHeight, timeDown, wifiVars>>

\* lift.py:402 the assignment, up to the call of dock.  A measured time of
\* 0 units stands for a positive time shorter than one unit, so the
\* divisions of lift.py:407-408 do not fail.
CalibrateDock(t) ==
    /\ At(t, "k_down_ret")
    /\ timeDown' = Some(ret[t])
    /\ stack' = Call(t, "k_ret", Frame("dk_check"))
    /\ Ret(t, 0)
    /\ IO(Logs("calibrated"))
    /\ UNCHANGED <<lock, owner, sock, rxq, currentSpeed, lastRespAge,
                   curHeight, timeUp, wifiVars>>

CalibrateReturn(t) ==
    /\ At(t, "k_ret")
    /\ stack' = Return(t)
    /\ Ret(t, 0)
    /\ IO(Quiet)
    /\ UNCHANGED <<liftVars, wifiVars>>

(***************************************************************************)
(* Lift.move_to.                                                           *)
(***************************************************************************)
\* lift.py:314-316
MoveToStart(t) ==
    /\ At(t, "t_start")
    /\ IF IsNone(curHeight)
       THEN /\ stack' = Call(t, "t_go", Frame("k_bump"))
            /\ IO(Logs("uncalibrated"))
       ELSE /\ stack' = Goto(t, "t_go")
            /\ IO(Quiet)
    /\ Ret(t, 0)
    /\ UNCHANGED <<liftVars, wifiVars>>

\* lift.py:349 distance divided by the speed height / time of the direction
TravelDuration(distance, time) ==
    ((IF distance < 0 THEN 0 - distance ELSE distance) * time) \div MaxHeight

\* a move_to without the branch of lift.py:324
ExtremeNoTop(h) == IF h <= 0 THEN "bottom" ELSE "none"

\* a move_to without the branch of lift.py:331
ExtremeNoBottom(h) == IF h >= MaxHeight THEN "top" ELSE "none"

\* lift.py:324/331 the end of the track that the request lies at or beyond
Extreme(h) ==
    IF h >= MaxHeight THEN "top"
    ELSE IF h <= 0 THEN "bottom"
    ELSE "none"

\* a deadline without the travel margin
BoundedByNoMargin(time) == time

\* lift.py:327/334 the deadline of an episode to an end of the track
BoundedBy(time) == time + MarginUnits

\* a move_to that takes the travel time of the opposite direction
TravelTimeSwapped(distance) == IF distance < 0 THEN timeUp ELSE timeDown

\* lift.py:342-347 the calibrated travel time of the direction of the distance
TravelTime(distance) == IF distance < 0 THEN timeDown ELSE timeUp

\* lift.py:324-354 the episode that move_to(h) runs: its speed, its duration
\* and the statement it resumes at; err is set when an operand is None;
\* local is the local variable motor_speed of lift.py:344/347, which the
\* branches to the ends of the track do not assign
Travel(h) ==
    IF Extreme(h) = "top"
    THEN [err |-> IsNone(timeUp), speed |-> 255, pc |-> "t_top", local |-> 0,
          dur |-> IF IsNone(timeUp) THEN 0 ELSE BoundedBy(Val(timeUp))]
    ELSE IF Extreme(h) = "bottom"
    THEN [err |-> IsNone(timeDown), speed |-> 0 - 255, pc |-> "t_bot", local |-> 0,
          dur |-> IF IsNone(timeDown) THEN 0 ELSE BoundedBy(Val(timeDown))]
    ELSE LET distance == IF IsNone(curHeight) THEN 0 ELSE h - Val(curHeight)
             time == TravelTime(distance)
             motor_speed == IF distance < 0 THEN 0 - 255 ELSE 255
         IN  [err |-> IsNone(curHeight) \/ IsNone(time),
              speed |-> motor_speed, pc |-> "t_mid", local |-> motor_speed,
              dur |-> IF IsNone(time) THEN 0 ELSE TravelDuration(distance, Val(time))]

\* a move_to without the test of lift.py:319
AlreadyAtNever(h) == FALSE

\* lift.py:319 the location is already reached
AlreadyAt(h) == curHeight = Some(h)

\* lift.py:319-354 up to the call of _move
MoveToGo(t) ==
    /\ At(t, "t_go")
    /\ LET h == Top(t).h
           go == Travel(h)
       IN  IF AlreadyAt(h)
           THEN /\ stack' = Return(t)
                /\ Ret(t, Val(curHeight))
                /\ IO(Logs("already"))
           ELSE IF go.err
           THEN /\ Raise(t, "TypeError")
                /\ IO(Logs("TypeError"))
           ELSE /\ stack' = CallFrom(t, [Top(t) EXCEPT !.pc = go.pc,
                                                       !.speed = go.local],
                                     MoveFrame(go.speed, go.dur))
                /\ Ret(t, 0)
                /\ IO(Quiet)
    /\ UNCHANGED <<liftVars, wifiVars>>

\* lift.py:328-329
MoveToTop(t) ==
    /\ At(t, "t_top")
    /\ curHeight' = Some(MaxHeight)
    /\ Ret(t, MaxHeight)
    /\ stack' = Return(t)
    /\ IO(Quiet)
    /\ UNCHANGED <<lock, owner, sock, rxq, currentSpeed, lastRespAge,
                   timeUp, timeDown, wifiVars>>

\* lift.py:335
MoveToDock(t) ==
    /\ At(t, "t_bot")
    /\ stack' = Call(t, "t_docked", Frame("dk_check"))
    /\ Ret(t, 0)
    /\ IO(Quiet)
    /\ UNCHANGED <<liftVars, wifiVars>>

\* lift.py:337-338
MoveToBottom(t) ==
    /\ At(t, "t_docked")
    /\ curHeight' = Some(0)
    /\ Ret(t, 0)
    /\ stack' = Return(t)
    /\ IO(Quiet)
    /\ UNCHANGED <<lock, owner, sock, rxq, currentSpeed, lastRespAge,
                   timeUp, timeDown, wifiVars>>

\* lift.py:359-371 the estimate is the target; a sensor that disagrees is logged
MoveToReached(t) ==
    /\ At(t, "t_mid")
    /\ LET h == Top(t).h
       IN  /\ curHeight' = Some(h)
           /\ Ret(t, h)
           /\ \E top \in BOOLEAN, bottom \in BOOLEAN :
                IO([Quiet EXCEPT !.top = top, !.bottom = bottom,
                                 !.log = IF (bottom /\ h # 0) \/ (top /\ h # MaxHeight)
                                         THEN "mismatch" ELSE "none"])
    /\ stack' = Return(t)
    /\ UNCHANGED <<lock, owner, sock, rxq, currentSpeed, lastRespAge,
                   timeUp, timeDown, wifiVars>>

(***************************************************************************)
(* SensorProxy._reset_lift, run by the main thread before any metering is  *)
(* scheduled.                                                              *)
(***************************************************************************)
\* app.py:139
ResetConnect(t) ==
    /\ t = MainThread
    /\ At(t, "z_connect")
    /\ stack' = Call(t, "z_connected", Frame("c_acquire"))
    /\ Ret(t, 0)
    /\ IO(Quiet)
    /\ UNCHANGED <<liftVars, wifiVars>>

\* app.py:149
ResetCalibrate(t) ==
    /\ t = MainThread
    /\ At(t, "z_connected")
    /\ stack' = Call(t, "z_calibrated", Frame("k_bump"))
    /\ Ret(t, 0)
    /\ IO(Quiet)
    /\ UNCHANGED <<liftVars, wifiVars>>

\* app.py:150, and app.py:145 in the handler
ResetDisconnect(t) ==
    /\ t = MainThread
    /\ At(t, "z_calibrated") \/ At(t, "z_h_lift")
    /\ stack' = Call(t, "z_done", Frame("d_close"))
    /\ Ret(t, 0)
    /\ IO(Quiet)
    /\ UNCHANGED <<liftVars, wifiVars>>

\* the constructor has returned and SensorProxy.run schedules the meterings
Scheduling == stack[MainThread] = << Frame("z_done") >>

(***************************************************************************)
(* SensorProxy._run_metering with heights, one thread per scheduled run.   *)
(***************************************************************************)
\* app.py:212 a run starts and calls connect
MeteringStart(t) ==
    /\ t \in Jobs
    /\ Scheduling
    /\ At(t, "idle") \/ At(t, "crashed")
    /\ stack' = [stack EXCEPT ![t] = << Frame("r_heights"), Frame("c_acquire") >>]
    /\ Ret(t, 0)
    /\ IO(Quiet)
    /\ UNCHANGED <<liftVars, wifiVars>>

\* app.py:214-223 the next height of the list, which the loop variable
\* height (the field h of the frame) takes, or the way back to the bottom
\* when the list is exhausted.  The list is any list of at most MaxMoves
\* heights of Targets.
MeteringMove(t) ==
    /\ t \in Jobs
    /\ At(t, "r_heights")
    /\ LET n == Top(t).n
       IN  \/ /\ n < MaxMoves
              /\ \E height \in Targets :
                   stack' = CallFrom(t, [Top(t) EXCEPT !.n = n + 1, !.h = height],
                                     MoveToFrame(height))
           \/ stack' = Call(t, "r_disc", MoveToFrame(0))
    /\ Ret(t, 0)
    /\ IO(Quiet)
    /\ UNCHANGED <<liftVars, wifiVars>>

\* app.py:224, and app.py:232 in the handler
MeteringDisconnect(t) ==
    /\ t \in Jobs
    /\ At(t, "r_disc") \/ At(t, "h_lift")
    /\ stack' = Call(t, IF At(t, "r_disc") THEN "r_end" ELSE "h_end", Frame("d_close"))
    /\ Ret(t, 0)
    /\ IO(Quiet)
    /\ UNCHANGED <<liftVars, wifiVars>>

\* app.py:228/233/235 the run records without the lift and its thread ends
MeteringEnd(t) ==
    /\ t \in Jobs
    /\ At(t, "r_end") \/ At(t, "h_wifi") \/ At(t, "h_end")
    /\ stack' = [stack EXCEPT ![t] = << Frame("idle") >>]
    /\ Ret(t, 0)
    /\ IO(Quiet)
    /\ UNCHANGED <<liftVars, wifiVars>>

(***************************************************************************)
(* The program.                                                            *)
(***************************************************************************)
Constructed ==
    /\ stack = [t \in Threads |-> IF t = MainThread THEN << Frame("z_connect") >>
                                                    ELSE << Frame("idle") >>]
    /\ ret = [t \in Threads |-> 0]
    /\ lock = FALSE
    /\ owner = 0
    /\ sock = 0
    /\ rxq = <<>>
    /\ currentSpeed = None
    /\ lastRespAge = None
    /\ curHeight = None
    /\ timeUp = None
    /\ timeDown = None
    /\ mgrLock = FALSE
    /\ wpa = FALSE
    /\ hallTop = FALSE
    /\ hallBottom = FALSE
    /\ charging = FALSE
    /\ tx = None
    /\ log = "none"
    /\ rx = 0

\* no simulated actuator is attached: the pins and the link are free
Detached == [pos |-> 0, motor |-> 0, up |-> 0, down |-> 0]

Still == UNCHANGED sim

Init == Constructed /\ sim = Detached

\* a step of thread t inside the run it is in
Step(t) ==
    \/ WifiAcquire(t) /\ Still
    \/ WifiJoin(t) /\ Still
    \/ ConnectAcquire(t) /\ Still
    \/ ConnectOpen(t) /\ Still
    \/ ConnectPoll(t) /\ Still
    \/ ConnectRaise(t) /\ Still
    \/ DisconnectClose(t) /\ Still
    \/ DisconnectMgr(t) /\ Still
    \/ DisconnectRelease(t) /\ Still
    \/ MoveTick(t) /\ Still
    \/ MoveReturn(t) /\ Still
    \/ DockCheck(t) /\ Still
    \/ DockDown(t) /\ Still
    \/ CalibrateStart(t) /\ Still
    \/ CalibrateUp(t) /\ Still
    \/ CalibrateDown(t) /\ Still
    \/ CalibrateDock(t) /\ Still
    \/ CalibrateReturn(t) /\ Still
    \/ MoveToStart(t) /\ Still
    \/ MoveToGo(t) /\ Still
    \/ MoveToTop(t) /\ Still
    \/ MoveToDock(t) /\ Still
    \/ MoveToBottom(t) /\ Still
    \/ MoveToReached(t) /\ Still
    \/ ResetConnect(t) /\ Still
    \/ ResetCalibrate(t) /\ Still
    \/ ResetDisconnect(t) /\ Still
    \/ MeteringMove(t) /\ Still
    \/ MeteringDisconnect(t) /\ Still
    \/ MeteringEnd(t) /\ Still

\* a run of job t is in progress
Running(t) == ~(At(t, "idle") \/ At(t, "crashed"))

\* thread t is inside Lift.connect
InConnect(t) ==
    /\ Depth(t) >= 2
    /\ stack[t][2].pc \in {"c_acquire", "c_open", "c_poll", "c_raise"}

\* connect has returned to thread t and t has not yet called disconnect
InSession(t) ==
    /\ ~InConnect(t)
    /\ \/ Bottom(t).pc \in {"r_heights", "r_disc", "z_calibrated"}
       \/ At(t, "z_connected")

\* two threads are in a session at once
Overlap == \E a \in Threads : InSession(a) /\ \E b \in Threads \ {a} : InSession(b)

(***************************************************************************)
(* Spec: the schedule leaves every run the time to end, so a run is        *)
(* started only when no other run is in progress.  Runs that do not        *)
(* overlap differ in their list of heights only, not in the thread that    *)
(* executes them, so the runs are those of the first job, one after the    *)
(* other, each with any list of heights.                                   *)
(***************************************************************************)
Startable == IF \A u \in Jobs : ~Running(u) THEN {1} ELSE {}

Next ==
    \/ \E t \in Threads : Step(t)
    \/ \E t \in Startable : MeteringStart(t) /\ Still

Spec == Init /\ [][Next]_vars

(***************************************************************************)
(* AppSpec: runs are started while others are in progress (run_threaded    *)
(* starts a thread per run); the behaviour is followed up to the first     *)
(* state in which two threads are in a session at once.                    *)
(***************************************************************************)
\* the metering of job t lists Heights(t): the call that its thread has just
\* made is the one that the list prescribes
Configured(t) ==
    LET b == stack'[t][1]
    IN  IF b.pc = "r_heights"
        THEN b.n <= Len(Heights(t)) /\ b.h = Heights(t)[b.n]
        ELSE b.n = Len(Heights(t))

\* a step of thread t, or the start of a run, while no two sessions overlap
AppStep(t) ==
    \/ WifiAcquire(t) /\ ~Overlap /\ Still
    \/ WifiJoin(t) /\ ~Overlap /\ Still
    \/ ConnectAcquire(t) /\ ~Overlap /\ Still
    \/ ConnectOpen(t) /\ ~Overlap /\ Still
    \/ ConnectPoll(t) /\ ~Overlap /\ Still
    \/ ConnectRaise(t) /\ ~Overlap /\ Still
    \/ DisconnectClose(t) /\ ~Overlap /\ Still
    \/ DisconnectMgr(t) /\ ~Overlap /\ Still
    \/ DisconnectRelease(t) /\ ~Overlap /\ Still
    \/ MoveTick(t) /\ ~Overlap /\ Still
    \/ MoveReturn(t) /\ ~Overlap /\ Still
    \/ DockCheck(t) /\ ~Overlap /\ Still
    \/ DockDown(t) /\ ~Overlap /\ Still
    \/ CalibrateStart(t) /\ ~Overlap /\ Still
    \/ CalibrateUp(t) /\ ~Overlap /\ Still
    \/ CalibrateDown(t) /\ ~Overlap /\ Still
    \/ CalibrateDock(t) /\ ~Overlap /\ Still
    \/ CalibrateReturn(t) /\ ~Overlap /\ Still
    \/ MoveToStart(t) /\ ~Overlap /\ Still
    \/ MoveToGo(t) /\ ~Overlap /\ Still
    \/ MoveToTop(t) /\ ~Overlap /\ Still
    \/ MoveToDock(t) /\ ~Overlap /\ Still
    \/ MoveToBottom(t) /\ ~Overlap /\ Still
    \/ MoveToReached(t) /\ ~Overlap /\ Still
    \/ ResetConnect(t) /\ ~Overlap /\ Still
    \/ ResetCalibrate(t) /\ ~Overlap /\ Still
    \/ ResetDisconnect(t) /\ ~Overlap /\ Still
    \/ MeteringMove(t) /\ ~Overlap /\ Configured(t) /\ Still
    \/ MeteringDisconnect(t) /\ ~Overlap /\ Still
    \/ MeteringEnd(t) /\ ~Overlap /\ Still
    \/ MeteringStart(t) /\ ~Overlap /\ Still

AppNext == \E t \in Threads : AppStep(t)

AppSpec == Init /\ [][AppNext]_vars

(***************************************************************************)
(* SimSpec: _reset_lift with a simulated actuator attached.  A carriage    *)
(* travels a track of SimTrack positions while the motor runs, sim.up      *)
(* positions per tick upwards and sim.down per tick downwards; the hall    *)
(* sensors are active at the ends of the track; every speed command        *)
(* arrives and is acknowledged in time.  The default moving time of the    *)
(* model spans two passes of the loop, so the speeds are those that travel *)
(* the track within one tick.                                              *)
(***************************************************************************)
SimTrack == 2
SimRates == SimTrack .. (SimTrack + 1)
SimStates == [pos : 0..SimTrack, motor : {0}, up : SimRates, down : SimRates]

\* the carriage of actuator a one tick later
Moved(a) ==
    IF a.motor > 0 THEN Min(a.pos + a.up, SimTrack)
    ELSE IF a.motor < 0 THEN (IF a.pos > a.down THEN a.pos - a.down ELSE 0)
    ELSE a.pos

\* the step that thread t takes is one on the simulated actuator: the pins
\* it reads show the place of the carriage, a pass of the loop of _move
\* fails neither to send nor to receive, the motor takes the speed that is
\* transmitted and the carriage moves while the loop sleeps
Simulated(t) ==
    LET f == Top(t)
        pass == At(t, "m_loop") /\ ~DeadlinePassed(f) /\ sock # 0
        slept == /\ pass
                 /\ Len(stack'[t]) = Depth(t)
                 /\ stack'[t][Depth(t)].pc = "m_loop"
        motor == IF IsNone(tx') THEN sim.motor ELSE Val(tx')
    IN  /\ (pass /\ f.speed > 0) => (hallTop' = (sim.pos = SimTrack))
        /\ (pass /\ f.speed < 0) => (hallBottom' = (sim.pos = 0))
        /\ At(t, "k_bump") => (hallBottom' = (sim.pos = 0))
        /\ At(t, "m_loop") => log' \in {"none", "limit", "deadline"}
        /\ sim' = [sim EXCEPT !.motor = motor,
                              !.pos = IF slept
                                      THEN Moved([sim EXCEPT !.motor = motor])
                                      ELSE @]

SimInit == Constructed /\ sim \in SimStates

\* a step of _reset_lift on the simulated actuator
SimStep(t) ==
    \/ ResetConnect(t) /\ Simulated(t)
    \/ ConnectAcquire(t) /\ Simulated(t)
    \/ WifiAcquire(t) /\ Simulated(t)
    \/ WifiJoin(t) /\ Simulated(t)
    \/ ConnectOpen(t) /\ Simulated(t)
    \/ ConnectPoll(t) /\ Simulated(t)
    \/ ConnectRaise(t) /\ Simulated(t)
    \/ ResetCalibrate(t) /\ Simulated(t)
    \/ CalibrateStart(t) /\ Simulated(t)
    \/ CalibrateUp(t) /\ Simulated(t)
    \/ CalibrateDown(t) /\ Simulated(t)
    \/ CalibrateDock(t) /\ Simulated(t)
    \/ CalibrateReturn(t) /\ Simulated(t)
    \/ MoveTick(t) /\ Simulated(t)
    \/ MoveReturn(t) /\ Simulated(t)
    \/ DockCheck(t) /\ Simulated(t)
    \/ DockDown(t) /\ Simulated(t)
    \/ ResetDisconnect(t) /\ Simulated(t)
    \/ DisconnectClose(t) /\ Simulated(t)
    \/ DisconnectMgr(t) /\ Simulated(t)
    \/ DisconnectRelease(t) /\ Simulated(t)

SimNext == \E t \in {MainThread} : SimStep(t)

SimSpec == SimInit /\ [][SimNext]_vars

(***************************************************************************)
(* DownSpec: _reset_lift on a lift whose link goes down for good when the  *)
(* calibration starts: from then on no datagram arrives, so no command is  *)
(* acknowledged, the motor never runs and the carriage stays where it is   *)
(* (sim.pos), which is what the hall sensors show at every reading.        *)
(***************************************************************************)
\* thread t is inside Lift.calibrate
InCalibrate(t) ==
    \E i \in 1..Depth(t) :
       stack[t][i].pc \in {"k_bump", "k_up", "k_up_ret", "k_down_ret", "k_ret"}

\* the step that thread t takes is one with the link down: a pass of the
\* loop of _move inside calibrate() finds no datagram on the socket, and the
\* pins show the carriage at rest
Unreachable(t) ==
    LET f == Top(t)
        pass == At(t, "m_loop") /\ ~DeadlinePassed(f) /\ sock # 0
    IN  /\ (pass /\ f.speed > 0) => (hallTop' = (sim.pos = SimTrack))
        /\ (pass /\ f.speed < 0) => (hallBottom' = (sim.pos = 0))
        /\ At(t, "k_bump") => (hallBottom' = (sim.pos = 0))
        /\ (InCalibrate(t) /\ At(t, "m_loop")) => rx' = 0
        /\ sim' = sim

\* a step of _reset_lift with the link down during the calibration
DownStep(t) ==
    \/ ResetConnect(t) /\ Unreachable(t)
    \/ ConnectAcquire(t) /\ Unreachable(t)
    \/ WifiAcquire(t) /\ Unreachable(t)
    \/ WifiJoin(t) /\ Unreachable(t)
    \/ ConnectOpen(t) /\ Unreachable(t)
    \/ ConnectPoll(t) /\ Unreachable(t)
    \/ ConnectRaise(t) /\ Unreachable(t)
    \/ ResetCalibrate(t) /\ Unreachable(t)
    \/ CalibrateStart(t) /\ Unreachable(t)
    \/ CalibrateUp(t) /\ Unreachable(t)
    \/ CalibrateDown(t) /\ Unreachable(t)
    \/ CalibrateDock(t) /\ Unreachable(t)
    \/ CalibrateReturn(t) /\ Unreachable(t)
    \/ MoveTick(t) /\ Unreachable(t)
    \/ MoveReturn(t) /\ Unreachable(t)
    \/ DockCheck(t) /\ Unreachable(t)
    \/ DockDown(t) /\ Unreachable(t)
    \/ ResetDisconnect(t) /\ Unreachable(t)
    \/ DisconnectClose(t) /\ Unreachable(t)
    \/ DisconnectMgr(t) /\ Unreachable(t)
    \/ DisconnectRelease(t) /\ Unreachable(t)

DownNext == \E t \in {MainThread} : DownStep(t)

DownSpec == SimInit /\ [][DownNext]_vars

(***************************************************************************)
(* Properties.  A step of thread t is a step that changes stack[t]; the    *)
(* variables hallTop, hallBottom, tx and log describe the step just taken. *)
(***************************************************************************)
\* thread t is inside a movement episode
InEpisode(t) == \E i \in 1..Depth(t) : stack[t][i].pc \in {"m_loop", "m_ret"}

\* C1: concurrent connect() calls serialize: at every moment at most one
\* thread is between a successful return of connect() and its own
\* disconnect().
C1_ConnectSerializes ==
    \A a \in Threads, b \in Threads : InSession(a) /\ InSession(b) => a = b

\* C2: under every interleaving of metering jobs the session is never
\* shared: a disconnect() closes only the socket that its own thread opened
\* and releases only the ownership that its own thread acquired, and no two
\* jobs are in a movement episode at the same time.
C2_SessionNeverShared ==
    [][\A t \in Jobs :
         /\ (At(t, "d_close") /\ stack'[t] # stack[t] /\ sock' # sock) => sock = t
         /\ (At(t, "d_release") /\ stack'[t] # stack[t] /\ ~lock') => owner = t
         /\ \A u \in Jobs \ {t} : ~(InEpisode(t) /\ InEpisode(u))]_vars

\* C3: limit interlock: no speed above 0 is transmitted by a step that read
\* the top sensor active and no speed below 0 by a step that read the bottom
\* sensor active; a pass of the loop of _move that reads the sensor of its
\* direction active transmits nothing and raises the limit signal, whoever
\* called _move.
C3_LimitInterlock ==
    [][/\ (~IsNone(tx') /\ Val(tx') > 0) => ~hallTop'
       /\ (~IsNone(tx') /\ Val(tx') < 0) => ~hallBottom'
       /\ \A t \in Threads :
            (At(t, "m_loop") /\ stack'[t] # stack[t]) =>
               /\ (Top(t).speed > 0 /\ hallTop') => (IsNone(tx') /\ log' = "limit")
               /\ (Top(t).speed < 0 /\ hallBottom') => (IsNone(tx') /\ log' = "limit")
      ]_vars

\* C3 witness: the upward bump of dock() has just read the top sensor
\* active: nothing was transmitted and the limit signal was raised.
C3_LimitInDock ==
    /\ log = "limit" /\ hallTop /\ IsNone(tx)
    /\ \E t \in Threads : \E i \in 1..Depth(t) : stack[t][i].pc = "dk_down"

\* C4: limit authority: a pass of the loop of _move that reads the top
\* sensor active for a speed above 0 leaves the loop in that pass and sets
\* the position estimate to the maximum height, whatever is left of the
\* deadline; the bottom sensor and a speed below 0 leave the loop and set
\* the estimate to 0.
C4_LimitAuthority ==
    [][\A t \in Threads :
         (At(t, "m_loop") /\ stack'[t] # stack[t]) =>
            LET d == Depth(t)
                left == Len(stack'[t]) >= d /\ stack'[t][d].pc = "m_ret"
            IN  /\ (Top(t).speed > 0 /\ hallTop') =>
                       (left /\ curHeight' = Some(MaxHeight))
                /\ (Top(t).speed < 0 /\ hallBottom') =>
                       (left /\ curHeight' = Some(0))
      ]_vars

\* C4 witness: an upward episode has just been stopped by the top sensor
\* with more than one pass of its deadline left, and the estimate is the
\* maximum height.
C4_StoppedBeforeDeadline ==
    /\ log = "limit" /\ hallTop /\ curHeight = Some(MaxHeight)
    /\ \E t \in Threads :
         /\ Depth(t) >= 2
         /\ LET f == stack[t][Depth(t) - 1]
            IN  f.pc = "m_ret" /\ f.speed > 0 /\ f.el + TickUnits < f.dur

\* C5: when the handshake of connect() gets no acknowledgement within the
\* timeout, connect() raises LiftConnectionException with the ownership
\* still held by the caller.
C5_TimeoutKeepsOwnership ==
    [][\A t \in Threads :
         (At(t, "c_raise") /\ stack'[t] # stack[t]) =>
            (lock /\ owner = t /\ lock' /\ owner' = t)]_vars

\* C6: after connect() has failed with a LiftConnectionException, the one
\* disconnect() of the handler of _run_metering (its commands succeeding)
\* raises nothing and returns with no open link and the ownership free.
C6_DisconnectAfterFailure ==
    [][\A t \in Jobs :
         (/\ Bottom(t).pc = "h_end" /\ Depth(t) > 1
          /\ stack'[t] # stack[t]
          /\ log' # "ReturncodeException") =>
            /\ log' \notin {"AttributeError", "RuntimeError"}
            /\ stack'[t][1].pc = "h_end"
            /\ Len(stack'[t]) = 1 => (sock' = 0 /\ ~lock')]_vars

\* C7: in every way the network join can fail inside connect(), the error
\* propagates with the ownership released and no link open.
C7_JoinFailureReleases ==
    [][\A t \in Threads :
         (/\ At(t, "w_join") /\ stack'[t] # stack[t]
          /\ log' \in {"WiFiConnectionError", "Exception", "RuntimeError"}) =>
            (~lock' /\ sock' = 0)]_vars

\* C8: eventual progress: no failure leaves the ownership held for ever, so
\* a job whose run has ended (normally or by an exception) does not hold
\* the ownership that later connect() calls wait for.
C8_NoOwnershipAfterRun ==
    \A t \in Jobs : ~Running(t) => ~(lock /\ owner = t)

\* C9: timeout tolerance: a pass of the loop of _move that fails with a
\* communication error (link closed, send failure, unknown response, no
\* acknowledgement within the timeout) propagates nothing and leaves the
\* loop running, one tick later; the loop is left only by a limit or by the
\* deadline, every pass that stays advances the clock of the episode, and a
\* pass at or after the deadline leaves the loop, so the episode ends.
C9_TimeoutTolerance ==
    [][\A t \in Threads :
         (At(t, "m_loop") /\ stack'[t] # stack[t]) =>
            LET f == Top(t)
                d == Depth(t)
                kept == Len(stack'[t]) >= d
            IN  /\ log' # "LiftConnectionException"
                /\ log' = "lce" =>
                      (/\ Len(stack'[t]) = d
                       /\ stack'[t][d] = [f EXCEPT !.el = f.el + TickUnits])
                /\ (kept /\ stack'[t][d].pc = "m_ret") =>
                      log' \in {"limit", "deadline"}
                /\ (kept /\ stack'[t][d].pc = "m_loop") =>
                      stack'[t][d].el = f.el + TickUnits
                /\ f.el >= f.dur => (kept /\ stack'[t][d].pc = "m_ret")
      ]_vars

\* C9 witness: a pass has transmitted its speed, found the last
\* acknowledgement older than the timeout, and the loop is still running.
C9_TimedOutAndRunning ==
    /\ log = "lce" /\ ~IsNone(tx)
    /\ ~IsNone(lastRespAge) /\ Val(lastRespAge) > TimeoutUnits
    /\ \E t \in Threads : At(t, "m_loop") /\ Top(t).el > 0

\* C10: a response received in a movement episode that is not a well-formed
\* "set <int>" never propagates out of _move: no pass of the loop raises
\* ValueError and every pass leaves the thread in its call of _move.
C10_MalformedAbsorbed ==
    [][\A t \in Threads :
         (At(t, "m_loop") /\ stack'[t] # stack[t]) =>
            (log' # "ValueError" /\ Len(stack'[t]) >= Depth(t))]_vars

\* C11: after a movement episode with a speed other than 0 has ended by a
\* limit or by the deadline, _move runs a stop episode before it returns:
\* the loop is left into a call of _move(0, 1), whose first pass comes
\* before its deadline and attempts to transmit speed 0 on the open socket,
\* which ends only after a pass has been made, and during which nothing but
\* speed 0 is transmitted.
C11_StopEpisode ==
    [][\A t \in Threads :
         (At(t, "m_loop") /\ stack'[t] # stack[t]) =>
            LET f == Top(t)
                d == Depth(t)
                left == Len(stack'[t]) >= d /\ stack'[t][d].pc = "m_ret"
            IN  /\ (f.speed # 0 /\ left) =>
                      (/\ Len(stack'[t]) = d + 1
                       /\ stack'[t][d + 1] = MoveFrame(0, OneSecond))
                /\ (f.speed = 0 /\ f.el = 0) =>
                      (/\ ~left
                       /\ sock # 0
                       /\ tx' = Some(0) \/ log' = "lce")
                /\ (f.speed = 0 /\ left) => (f.el > 0 /\ Len(stack'[t]) = d)
                /\ (f.speed = 0 /\ ~IsNone(tx')) => tx' = Some(0)
      ]_vars

\* C11 witness: an episode with a speed other than 0 has run into its
\* deadline and the first pass of its stop episode has transmitted speed 0.
C11_StopAfterDeadline ==
    /\ tx = Some(0)
    /\ \E t \in Threads :
         /\ Depth(t) >= 2
         /\ At(t, "m_loop") /\ Top(t).speed = 0 /\ Top(t).el = TickUnits
         /\ LET f == stack[t][Depth(t) - 1]
            IN  f.pc = "m_ret" /\ f.speed # 0 /\ f.el >= f.dur

\* C12: the limit signal _MovingException never leaves the loop of _move:
\* no step of connect, _move, move_to, calibrate or dock propagates it, it
\* is raised only by a pass of the loop for a speed other than 0, and that
\* pass ends the episode and starts the stop episode.
C12_LimitSignalInternal ==
    [][/\ log' # "_MovingException"
       /\ \A t \in Threads :
            (stack'[t] # stack[t] /\ log' = "limit") =>
               /\ At(t, "m_loop") /\ Top(t).speed # 0
               /\ Len(stack'[t]) = Depth(t) + 1
               /\ stack'[t][Depth(t)] = [Top(t) EXCEPT !.pc = "m_ret"]
               /\ stack'[t][Depth(t) + 1] = MoveFrame(0, OneSecond)
      ]_vars

\* C12 witness: the first descent of calibrate has just read the bottom
\* sensor active: the episode has ended and its stop episode is about to run.
C12_LimitInCalibrate ==
    /\ log = "limit" /\ hallBottom
    /\ \E t \in Threads :
         /\ Depth(t) >= 3
         /\ Top(t) = MoveFrame(0, OneSecond)
         /\ stack[t][Depth(t) - 1].pc = "m_ret"
         /\ stack[t][Depth(t) - 2].pc = "k_up"

\* C13: idempotent no-op: once move_to(h) has returned for a height h of
\* [0, max] the estimate is h, and a call of move_to(h) that finds the
\* estimate at h transmits nothing, runs no episode, does not dock and
\* returns the estimate, which it leaves unchanged.
C13_IdempotentNoOp ==
    [][\A t \in Jobs :
         /\ (At(t, "r_heights") /\ Top(t).n >= 1 /\ Top(t).h \in 0..MaxHeight) =>
               curHeight = Some(Top(t).h)
         /\ (At(t, "t_start") /\ stack'[t] # stack[t] /\ curHeight = Some(Top(t).h)) =>
               (stack' = Goto(t, "t_go") /\ IsNone(tx') /\ curHeight' = curHeight)
         /\ (At(t, "t_go") /\ stack'[t] # stack[t] /\ curHeight = Some(Top(t).h)) =>
               /\ stack' = Return(t)
               /\ ret'[t] = Top(t).h
               /\ IsNone(tx')
               /\ curHeight' = curHeight
      ]_vars

\* C13 witness: the second of two calls move_to(h) in a row, for a height h
\* strictly between 0 and the maximum, has just returned h as a no-op.
C13_SecondCallNoOp ==
    \E t \in Jobs :
       /\ At(t, "r_heights") /\ Top(t).n >= 2
       /\ Top(t).h > 0 /\ Top(t).h < MaxHeight
       /\ log = "already" /\ ret[t] = Top(t).h /\ curHeight = Some(Top(t).h)

\* the height h limited to the track
Clamp(h) == IF h < 0 THEN 0 ELSE IF h > MaxHeight THEN MaxHeight ELSE h

C15_EstimateInRange ==
    ~IsNone(curHeight) => (Val(curHeight) >= 0 /\ Val(curHeight) <= MaxHeight)

\* C15 witness: move_to has returned for a target below 0 that was not the
\* first of its run, and the estimate is 0.
C15_BelowZeroReturned ==
    \E t \in Jobs :
       /\ At(t, "r_heights") /\ Top(t).n >= 2 /\ Top(t).h < 0
       /\ ret[t] = 0 /\ curHeight = Some(0)

\* C16: move_to(target) with target >= max and an estimate other than the
\* target runs exactly one episode: upwards (speed 255), with the deadline
\* time-to-top + safety margin; when that episode has returned, by the top
\* sensor or by the deadline, move_to sets the estimate to the maximum and
\* returns it.
C16_MoveToTop ==
    [][\A t \in Threads :
         /\ (/\ At(t, "t_go") /\ stack'[t] # stack[t]
             /\ Top(t).h >= MaxHeight /\ curHeight # Some(Top(t).h)
             /\ ~IsNone(timeUp)) =>
               stack' = Call(t, "t_top", MoveFrame(255, Val(timeUp) + MarginUnits))
         /\ (At(t, "t_top") /\ stack'[t] # stack[t]) =>
               /\ Top(t).h >= MaxHeight
               /\ stack' = Return(t)
               /\ curHeight' = Some(MaxHeight)
               /\ ret'[t] = MaxHeight
               /\ IsNone(tx')
      ]_vars

\* C16 witness: the upward episode of move_to for a target above the maximum
\* has returned after running into its deadline, with the estimate still
\* below the maximum.
C16_TopByDeadline ==
    \E t \in Jobs :
       /\ At(t, "t_top") /\ Top(t).h > MaxHeight
       /\ ~IsNone(timeUp) /\ ret[t] >= Val(timeUp) + MarginUnits
       /\ ~IsNone(curHeight) /\ Val(curHeight) < MaxHeight

\* C17: move_to(target) with target <= 0 and an estimate other than the
\* target runs one downward episode (speed -255) with the deadline
\* time-to-bottom + safety margin, sets the estimate to 0 and then invokes
\* dock(): the estimate is 0 when docking starts and when move_to returns.
C17_ZeroBeforeDock ==
    [][\A t \in Threads :
         /\ (/\ At(t, "t_go") /\ stack'[t] # stack[t]
             /\ Top(t).h <= 0 /\ curHeight # Some(Top(t).h)
             /\ ~IsNone(timeDown)) =>
               stack' = Call(t, "t_bot", MoveFrame(0 - 255, Val(timeDown) + MarginUnits))
         /\ (At(t, "t_bot") /\ stack'[t] # stack[t]) =>
               /\ stack' = Call(t, "t_docked", Frame("dk_check"))
               /\ curHeight' = Some(0)
         /\ (At(t, "t_docked") /\ stack'[t] # stack[t]) =>
               (stack' = Return(t) /\ curHeight' = Some(0) /\ ret'[t] = 0)
      ]_vars

\* C18: for a target strictly between 0 and the maximum that differs from
\* the estimate, move_to runs exactly one episode: with speed 255 when the
\* target is above the estimate and -255 when it is below, and with the
\* deadline |target - estimate| / (max / time), time being time-to-top when
\* ascending and time-to-bottom when descending (in whole model units); the
\* deadline is never negative and never longer than that time; when the
\* episode has returned move_to stores the target and returns.
C18_PartialMove ==
    [][\A t \in Threads :
         /\ (/\ At(t, "t_go") /\ stack'[t] # stack[t]
             /\ Top(t).h > 0 /\ Top(t).h < MaxHeight
             /\ ~IsNone(curHeight) /\ Val(curHeight) # Top(t).h
             /\ ~IsNone(IF Top(t).h > Val(curHeight) THEN timeUp ELSE timeDown)) =>
               LET h == Top(t).h
                   up == h > Val(curHeight)
                   time == IF up THEN Val(timeUp) ELSE Val(timeDown)
                   dist == IF up THEN h - Val(curHeight) ELSE Val(curHeight) - h
                   d == Depth(t)
               IN  /\ Len(stack'[t]) = d + 1
                   /\ stack'[t][d] = [Top(t) EXCEPT !.pc = "t_mid",
                                                    !.speed = IF up THEN 255
                                                              ELSE 0 - 255]
                   /\ LET f == stack'[t][d + 1]
                      IN  /\ f.pc = "m_loop" /\ f.el = 0
                          /\ f.speed = IF up THEN 255 ELSE 0 - 255
                          /\ f.dur * MaxHeight <= dist * time
                          /\ dist * time < (f.dur + 1) * MaxHeight
                          /\ f.dur >= 0 /\ f.dur <= time
         /\ (At(t, "t_mid") /\ stack'[t] # stack[t]) =>
               /\ stack' = Return(t)
               /\ curHeight' = Some(Top(t).h)
               /\ IsNone(tx')
      ]_vars

\* C18 witness: with a time-to-top other than the time-to-bottom, move_to
\* has started a descent to a target strictly between 0 and the estimate,
\* with a deadline above 0.
C18_DescentStarted ==
    \E t \in Jobs :
       /\ Depth(t) >= 3
       /\ stack[t][Depth(t) - 1].pc = "t_mid"
       /\ Top(t).pc = "m_loop" /\ Top(t).el = 0
       /\ Top(t).speed < 0 /\ Top(t).dur > 0
       /\ ~IsNone(timeUp) /\ ~IsNone(timeDown) /\ timeUp # timeDown

\* C19: move_to never computes the duration of an episode from an unset
\* calibration: a call of move_to that finds time-to-top or time-to-bottom
\* unset runs calibrate() first, so a call that skips calibration finds
\* both travel times set.
C19_CalibratedBeforeMove ==
    [][\A t \in Threads :
         (/\ At(t, "t_start") /\ stack'[t] # stack[t]
          /\ IsNone(timeUp) \/ IsNone(timeDown)) =>
            stack' = Call(t, "t_go", Frame("k_bump"))
      ]_vars

\* the time measured is the time that the track takes at the rate (the
\* track is travelled in TickUnits * SimTrack / rate), or up to a tick more
WithinTick(measured, rate) ==
    /\ measured * rate >= TickUnits * SimTrack
    /\ (measured - TickUnits) * rate < TickUnits * SimTrack

InDock(t) == \E i \in 1..Depth(t) : stack[t][i].pc \in {"dk_check", "dk_down"}

DockFrame(t) == CHOOSE i \in 1..Depth(t) : stack[t][i].pc \in {"dk_check", "dk_down"}

\* C21: docking retry bound: while the charging indicator is not active,
\* dock() makes exactly the configured number of retries, each an upward
\* bump followed by a downward bump, and then returns; whatever the link
\* and the sensors do during the bumps, no step inside dock() raises out of
\* it.
C21_DockRetryBound ==
    [][\A t \in Threads :
         (InDock(t) /\ stack'[t] # stack[t]) =>
            /\ \/ /\ Len(stack'[t]) >= DockFrame(t)
                  /\ stack'[t][DockFrame(t)].pc \in {"dk_check", "dk_down"}
               \/ At(t, "dk_check") /\ stack' = Return(t)
            /\ (At(t, "dk_check") /\ HasChargingPin /\ ~charging') =>
                  stack' = IF Top(t).n < DockingRetries
                           THEN Call(t, "dk_down", MoveFrame(255, HalfSecond))
                           ELSE Return(t)
            /\ At(t, "dk_down") =>
                  stack' = CallFrom(t, [Top(t) EXCEPT !.pc = "dk_check",
                                                      !.n = @ + 1],
                                    MoveFrame(0 - 255, OneSecond))
      ]_vars


\* app.py:226-233 the bracket of job t has failed with one of the two
\* exceptions that _run_metering handles
InHandler(t) == Bottom(t).pc \in {"h_wifi", "h_lift", "h_end"}

\* app.py:201-204, 235-237 job t holds the locks of its sensors from the
\* start of its run to the release loop that ends it; a thread that an
\* exception has ended never reached the release loop
SensorLocksHeld(t) == ~At(t, "idle")

\* C22: when the lift bracket of _run_metering has failed with
\* WiFiConnectionError or LiftConnectionException, the job goes on to
\* record its sensors without the lift and to release its sensor locks:
\* no step of the handler ends the thread by an exception (the commands run
\* by WiFiManager.disconnect succeeding), and the run ends with the sensor
\* locks released.
C22_FailureStillRecords ==
    [][\A t \in Jobs :
         (/\ InHandler(t)
          /\ stack'[t] # stack[t]
          /\ log' # "ReturncodeException") =>
            /\ stack'[t][1].pc \in {"h_end", "idle"}
            /\ (At(t, "h_wifi") \/ At(t, "h_end")) => ~SensorLocksHeld(t)']_vars


\* C23: connect() returns successfully only after an acknowledgement has
\* been received during that call: at the return the acknowledged speed is
\* set and the receipt it comes from is of this call (no time passes in the
\* handshake, so its timestamp has age 0), never a value that an earlier
\* session has left.
C23_AckInThisConnect ==
    [][\A t \in Threads :
         (At(t, "c_poll") /\ stack' = Return(t) /\ log' = "established") =>
            (~IsNone(currentSpeed) /\ lastRespAge = Some(0))]_vars


\* C24: within a tick the limit check comes before the deadline check: a
\* pass of the loop of _move that finds the deadline passed while the
\* carriage stands at the limit sensor of the commanded direction ends the
\* episode as stopped by the limit and sets the estimate to the height of
\* that limit.
C24_LimitBeforeDeadline ==
    [][\A t \in Threads :
         (/\ At(t, "m_loop") /\ stack'[t] # stack[t]
          /\ DeadlinePassed(Top(t)) /\ sock # 0) =>
            /\ (Top(t).speed > 0 /\ sim.pos = SimTrack) =>
                  (log' = "limit" /\ hallTop' /\ curHeight' = Some(MaxHeight))
            /\ (Top(t).speed < 0 /\ sim.pos = 0) =>
                  (log' = "limit" /\ hallBottom' /\ curHeight' = Some(0))]_vars


\* lift.py:188/192 the episode of the move_to of thread t, which has
\* returned to the statement of lift.py:354, was ended by the limit sensor
\* of its direction: the estimate is the height of that limit, which the
\* estimate at the start of a move to an intermediate target cannot have
\* been (the target lies between the two)
EndedAtBottom(t) == At(t, "t_mid") /\ Top(t).speed < 0 /\ curHeight = Some(0)

EndedAtTop(t) == At(t, "t_mid") /\ Top(t).speed > 0 /\ curHeight = Some(MaxHeight)

\* C25: a limit hit during a move is authoritative for the estimate: when
\* the episode of a move_to has been ended by the bottom (top) sensor, the
\* estimate is 0 (the maximum height) when move_to returns, also for a
\* target strictly between the two; the moves to the ends of the track
\* return with the estimate of their end.
C25_LimitHitAuthoritative ==
    [][\A t \in Threads :
         (stack' = Return(t)) =>
            /\ EndedAtBottom(t) => curHeight' = Some(0)
            /\ EndedAtTop(t) => curHeight' = Some(MaxHeight)
            /\ At(t, "t_top") => curHeight' = Some(MaxHeight)
            /\ At(t, "t_docked") => curHeight' = Some(0)]_vars


\* C26: after a bounded partial move that no limit has ended, move_to
\* updates the estimate by dead reckoning from the elapsed duration that
\* the episode returned: the new estimate is the previous one plus the
\* signed elapsed time times the calibrated speed of the direction
\* (MaxHeight / time), so an episode that took less or more than the time
\* requested moves the estimate by less or more.
C26_DeadReckoning ==
    [][\A t \in Threads :
         (/\ At(t, "t_mid") /\ stack' = Return(t)
          /\ ~EndedAtTop(t) /\ ~EndedAtBottom(t)
          /\ ~IsNone(curHeight)
          /\ ~IsNone(TravelTime(Top(t).speed)) /\ TravelTime(Top(t).speed) # Some(0)) =>
            LET time == Val(TravelTime(Top(t).speed))
                elapsed == IF Top(t).speed < 0 THEN 0 - ret[t] ELSE ret[t]
            IN  /\ ~IsNone(curHeight')
                /\ (Val(curHeight') - Val(curHeight)) * time = elapsed * MaxHeight
      ]_vars


\* lift.py:397/400/402 the frame on top of the stack of thread t is the
\* descent or the ascent of calibrate() (not one of its one-second bumps)
InTraversal(t) ==
    /\ Depth(t) >= 2
    /\ Top(t).pc = "m_loop"
    /\ stack[t][Depth(t) - 1].pc \in {"k_up", "k_up_ret", "k_down_ret"}

\* C27: the descent and the ascent of calibrate() are unbounded: the loop
\* of each is left only by the limit sensor of its direction, never by a
\* deadline, so a time-to-top is stored with the estimate at the maximum
\* height and a time-to-bottom with the estimate at 0.
C27_UnboundedTraversal ==
    [][\A t \in Threads :
         /\ (/\ InTraversal(t) /\ stack'[t] # stack[t]
             /\ Len(stack'[t]) >= Depth(t)
             /\ stack'[t][Depth(t)].pc = "m_ret") => log' = "limit"
         /\ (At(t, "k_up_ret") /\ stack'[t] # stack[t]) =>
               curHeight = Some(MaxHeight)
         /\ (At(t, "k_down_ret") /\ stack'[t] # stack[t]) =>
               curHeight = Some(0)]_vars


\* C28: with the link permanently unreachable during the calibration (no
\* command is delivered, the limit sensors never change), calibrate() never
\* returns and never records a travel time.
C28_CalibrateStalls ==
    /\ IsNone(timeUp) /\ IsNone(timeDown)
    /\ stack[MainThread] # << Frame("z_calibrated") >>


\* C29 as stated: when calibrate() reads the bottom sensor active it issues
\* a downward bump of one second and reads the sensor again; only a reading
\* that finds the sensor inactive starts the descent to the bottom limit.
C29_DownwardBumps ==
    [][\A t \in Threads :
         (At(t, "k_bump") /\ stack'[t] # stack[t]) =>
            stack' = IF hallBottom'
                     THEN Call(t, "k_bump", MoveFrame(0 - 255, OneSecond))
                     ELSE Call(t, "k_up", MoveFrame(0 - 255, DefaultMovingUnits))
      ]_vars

\* C29 amended: when calibrate() reads the bottom sensor active it issues
\* an upward bump of one second and reads the sensor again, as often as the
\* sensor is found active; only a reading that finds the sensor inactive
\* starts the descent to the bottom limit.
C29_UpwardBumps ==
    [][\A t \in Threads :
         (At(t, "k_bump") /\ stack'[t] # stack[t]) =>
            stack' = IF hallBottom'
                     THEN Call(t, "k_bump", MoveFrame(255, OneSecond))
                     ELSE Call(t, "k_up", MoveFrame(0 - 255, DefaultMovingUnits))
      ]_vars

\* C29 witness: the descent of calibrate() has started after a bump: the
\* step before read the bottom sensor inactive, and the estimate is the
\* maximum height, which before any ascent only an upward bump that the top
\* sensor ended can have set.
C29_DescentAfterBump ==
    \E t \in Threads :
       /\ Depth(t) >= 2
       /\ stack[t][Depth(t) - 1].pc = "k_up"
       /\ Top(t) = MoveFrame(0 - 255, DefaultMovingUnits)
       /\ curHeight = Some(MaxHeight)
       /\ ~hallBottom /\ log = "none" /\ IsNone(timeUp)


\* C30: in dock() a bump is issued only by a step that has read the
\* charging indicator and found it inactive; a step that finds it active
\* returns and transmits nothing; and after every retry, the last one
\* included, the indicator is read again.  A step of dock() that reads the
\* indicator logs what it found (lift.py:380/383).
C30_RecheckAfterRetry ==
    [][\A t \in Threads :
         (At(t, "dk_check") /\ HasChargingPin /\ stack'[t] # stack[t]) =>
            /\ Len(stack'[t]) > Depth(t) => (log' = "retry" /\ ~charging')
            /\ charging' => (stack' = Return(t) /\ IsNone(tx'))
            /\ Top(t).n > 0 => log' \in {"charging", "retry"}]_vars


(***************************************************************************)
(* An episode that starts with datagrams already on the socket: the        *)
(* descent of calibrate() in _reset_lift, entered with the acknowledgements*)
(* that arrived since the handshake of connect() drained the socket.       *)
(***************************************************************************)
MaxPending == MaxBatch + 1

Pending == SeqsUpTo(Datagrams, MaxPending)

\* app.py:139-149, lift.py:397 _reset_lift has connected and calibrate() has called
\* _move(-255); the first pass of its loop has not run yet
Descending ==
    /\ stack = [t \in Threads |->
                  IF t = MainThread
                  THEN << Frame("z_calibrated"), Frame("k_up"),
                          MoveFrame(0 - 255, DefaultMovingUnits) >>
                  ELSE << Frame("idle") >>]
    /\ ret = [t \in Threads |-> 0]
    /\ lock = TRUE
    /\ owner = MainThread
    /\ sock = MainThread
    /\ currentSpeed = Some(0)
    /\ lastRespAge = Some(0)
    /\ curHeight = None
    /\ timeUp = None
    /\ timeDown = None
    /\ mgrLock = HasMgr
    /\ wpa = HasMgr
    /\ hallTop = FALSE
    /\ hallBottom = FALSE
    /\ charging = FALSE
    /\ tx = None
    /\ log = "none"
    /\ rx = 0

QueuedInit == Descending /\ rxq \in Pending /\ sim = Detached

\* a step of the calibration and of the disconnect that follows it
QueuedStep(t) ==
    \/ MoveTick(t) /\ Still
    \/ MoveReturn(t) /\ Still
    \/ CalibrateUp(t) /\ Still
    \/ CalibrateDown(t) /\ Still
    \/ CalibrateDock(t) /\ Still
    \/ CalibrateReturn(t) /\ Still
    \/ DockCheck(t) /\ Still
    \/ DockDown(t) /\ Still
    \/ ResetDisconnect(t) /\ Still
    \/ DisconnectClose(t) /\ Still
    \/ DisconnectMgr(t) /\ Still
    \/ DisconnectRelease(t) /\ Still

QueuedNext == \E t \in {MainThread} : QueuedStep(t)

QueuedSpec == QueuedInit /\ [][QueuedNext]_vars


(***************************************************************************)
(* C31: a pass of the loop of _move with the link open, other than the one *)
(* that finds the deadline passed or a limit active, leaves no datagram on *)
(* the socket, whether it ends normally, with a failed send or with an     *)
(* unknown or malformed response.                                          *)
(***************************************************************************)
C31_AllPendingConsumed ==
    [][\A t \in Threads :
         (/\ At(t, "m_loop")
          /\ stack'[t] # stack[t]
          /\ ~DeadlinePassed(Top(t))
          /\ sock # 0
          /\ log' # "limit")
         => rxq' = <<>>]_vars


\* lift.py:246-249 a datagram that _recv_responses accepts: "set <int>"
IsAck(d) == Len(d) = 2 /\ d[1] = "set" /\ d[2] \in IntStrings

\* the acknowledgements at the head of q, up to the first other datagram
AckPrefix(q) ==
    CHOOSE n \in 0..Len(q) :
       /\ \A i \in 1..n : IsAck(q[i])
       /\ n = Len(q) \/ ~IsAck(q[n + 1])

\* thread t runs a pass of the loop of _move whose send succeeds and whose
\* drain reads exactly the datagrams pending on the socket
DrainsPending(t) ==
    /\ At(t, "m_loop")
    /\ stack'[t] # stack[t]
    /\ ~DeadlinePassed(Top(t))
    /\ tx' # None
    /\ Len(rxq) >= MaxBatch

(***************************************************************************)
(* C32: a drain that read one or more acknowledgements leaves the value of *)
(* the last of them in _current_speed, whatever their order; and when all  *)
(* that is pending are acknowledgements, the pass raises nothing and       *)
(* the episode goes on to its next tick, whether or not they match the     *)
(* requested speed.                                                        *)
(***************************************************************************)
C32_LastAckWins ==
    [][\A t \in Threads :
         DrainsPending(t) =>
            LET n == AckPrefix(rxq)
            IN  /\ n >= 1 => currentSpeed' = Some(ParseInt(rxq[n][2]))
                /\ n = Len(rxq) =>
                      /\ log' = "none"
                      /\ stack' = SetTop(t, [Top(t) EXCEPT !.el = @ + TickUnits])]_vars

\* the first pass of the descent has drained the socket: the speed recorded
\* is the acknowledged 255, not the requested -255, nothing was raised and
\* the episode is in its loop, one tick on
C32_DrainedTwoMismatched ==
    /\ At(MainThread, "m_loop")
    /\ Top(MainThread).el = TickUnits
    /\ Top(MainThread).speed = 0 - 255
    /\ tx = Some(0 - 255)
    /\ log = "none"
    /\ currentSpeed = Some(255)
    /\ rxq = <<>>


(***************************************************************************)
(* C33: with the link down during calibrate() no acknowledgement arrives   *)
(* in any of its episodes.  A pass whose send succeeds, so that the        *)
(* liveness check runs, raises the communication error exactly when a      *)
(* receipt time is recorded and is more than timeout_s old; the return of  *)
(* _move clears the receipt time; and no pass of these episodes raises the *)
(* communication error after a successful send.                            *)
(***************************************************************************)
C33_SilentEpisodeNeverTimesOut ==
    [][\A t \in Threads :
         LET pass == /\ InCalibrate(t)
                     /\ At(t, "m_loop")
                     /\ stack'[t] # stack[t]
                     /\ ~DeadlinePassed(Top(t))
                     /\ tx' # None
         IN  /\ pass => ((log' = "lce") <=> CheckTimeout(lastRespAge))
             /\ (At(t, "m_ret") /\ stack'[t] # stack[t]) => lastRespAge' = None
             /\ pass => log' # "lce"]_vars


(***************************************************************************)
(* C34: while a thread is in a lift session, between the return of         *)
(* connect() and its disconnect(), the WiFiManager is joined (a            *)
(* wpa_supplicant is registered) and its lock is held, so that no other    *)
(* user of the manager can join or leave a network.                        *)
(***************************************************************************)
C34_SessionKeepsNetwork ==
    \A t \in Threads : InSession(t) => (wpa /\ mgrLock)


\* thread t is executing Lift.connect or Lift.disconnect, the calls of
\* WiFiManager included
InConnectOrDisconnect(t) ==
    Top(t).pc \in {"c_acquire", "w_acquire", "w_join", "c_open", "c_poll",
                   "c_raise", "d_close", "d_mgr", "d_release"}

(***************************************************************************)
(* C35: no step of connect() or disconnect() changes the travel times or   *)
(* the position estimate.  The travel times change only where calibrate()  *)
(* stores the duration of a traversal, the estimate only at a limit hit    *)
(* inside an episode and at the end of move_to.                            *)
(***************************************************************************)
C35_CalibrationSurvivesSessions ==
    [][/\ \A t \in Threads :
            (InConnectOrDisconnect(t) /\ stack'[t] # stack[t]) =>
               UNCHANGED <<timeUp, timeDown, curHeight>>
       /\ timeUp' # timeUp =>
            \E t \in Threads : At(t, "k_up_ret") /\ stack'[t] # stack[t]
       /\ timeDown' # timeDown =>
            \E t \in Threads : At(t, "k_down_ret") /\ stack'[t] # stack[t]
       /\ curHeight' # curHeight =>
            \E t \in Threads :
               /\ stack'[t] # stack[t]
               /\ \/ At(t, "m_loop") /\ log' = "limit"
                  \/ Top(t).pc \in {"t_top", "t_docked", "t_mid"}]_vars

\* a run has connected in a session later than the one of _reset_lift, and
\* the travel times and the estimate of that calibration are in effect
C35_CalibratedInLaterSession ==
    /\ InSession(1)
    /\ log = "established"
    /\ ~IsNone(timeUp)
    /\ ~IsNone(timeDown)
    /\ curHeight = Some(0)


(***************************************************************************)
(* C36: the socket is open only while the lock of the lift is held, and a  *)
(* step transmits a speed command only while the lock is held.             *)
(***************************************************************************)
C36_LinkOnlyWhileOwned ==
    [][/\ sock # 0 => lock
       /\ sock' # 0 => lock'
       /\ ~IsNone(tx') => lock]_vars


\* a run in its session transmits a speed command over the open socket
\* while the lock is held
C36_CommandWhileOwned ==
    /\ InSession(1)
    /\ sock = 1
    /\ lock
    /\ owner = 1
    /\ tx = Some(255)


(***************************************************************************)
(* FairSpec: Spec with every thread scheduled again and again, as the      *)
(* interpreter does with the threads of a process: a thread that can take  *)
(* a step (it is not waiting for a lock) eventually takes one.             *)
(***************************************************************************)
FairSpec == Spec /\ \A t \in Threads : WF_vars(Step(t))

\* the frames of _move on the stack of thread t
MoveFrames(t) == { i \in 1..Depth(t) : stack[t][i].pc \in {"m_loop", "m_ret"} }

\* thread t is inside a call of _move
InMove(t) == MoveFrames(t) # {}

(***************************************************************************)
(* C37: every call of _move ends.  A pass of the loop at or after the      *)
(* deadline leaves the loop and every pass that stays moves the clock of   *)
(* the episode on by a tick; the stop episode (speed 0) reads no limit     *)
(* sensor, is not ended by a limit and calls no further _move, so at most  *)
(* two calls of _move are nested; and a thread inside _move eventually is  *)
(* outside of it, whatever the link delivers and the sensors show.         *)
(***************************************************************************)
C37_MoveTerminates ==
    /\ [][\A t \in Threads :
            /\ Cardinality(MoveFrames(t)') <= 2
            /\ (At(t, "m_loop") /\ stack'[t] # stack[t]) =>
                  LET f == Top(t)
                      d == Depth(t)
                      kept == Len(stack'[t]) >= d
                  IN  /\ f.el >= f.dur => (kept /\ stack'[t][d].pc = "m_ret")
                      /\ (kept /\ stack'[t][d].pc = "m_loop") =>
                            stack'[t][d].el = f.el + TickUnits
                      /\ f.speed = 0 =>
                            /\ log' # "limit"
                            /\ ~hallTop' /\ ~hallBottom'
                            /\ Len(stack'[t]) <= d]_vars
    /\ \A t \in Threads : InMove(t) ~> ~InMove(t)

\* a stop episode, nested in the episode that called it, has made its pass
\* and stands before its deadline check
C37_NestedStopEpisode ==
    \E t \in Threads :
       /\ Cardinality(MoveFrames(t)) = 2
       /\ At(t, "m_loop")
       /\ Top(t).speed = 0
       /\ Top(t).el >= Top(t).dur


(***************************************************************************)
(* C38: WiFiManager holds its lock exactly while a supplicant is           *)
(* registered.  When connect() returns, the lock is held and a supplicant  *)
(* is registered; when connect() raises, and when disconnect() returns, no *)
(* supplicant is registered and the lock is free.                          *)
(***************************************************************************)
C38_LockIffSupplicant ==
    [][\A t \in Threads :
         /\ (At(t, "w_join") /\ stack'[t] # stack[t]) =>
               IF stack' = Return(t)
               THEN wpa' /\ mgrLock'
               ELSE ~wpa' /\ ~mgrLock'
         /\ (At(t, "d_mgr") /\ stack' = Goto(t, "d_release")) =>
               (~wpa' /\ ~mgrLock')]_vars

=============================================================================
